---- MODULE Spec2Model ----
(***************************************************************************)
(* packetloss: the grid partitioner (LogListPartitioner), the bounded     *)
(* history buffer (LogList) and the selection overlay (SelectableLogList) *)
(* of src/src/term.rs, with the PacketChunk arithmetic of src/src/ping.rs *)
(* they depend on.                                                         *)
(*                                                                         *)
(* f64 values are modelled as integers: latencies in milliseconds, tint   *)
(* weights in tenths (5 is 0.5, 10 is 1.0).  Option<T> is modelled as a   *)
(* sequence of length 0 (None) or 1 (Some).  A Rust panic ends the        *)
(* process: it is the state panicked = TRUE, in which nothing is enabled. *)
(* Arithmetic overflow panics when the build has overflow checks (debug)  *)
(* and wraps when it has not (release): overflow_checks is chosen in Init.*)
(***************************************************************************)
EXTENDS Integers, Sequences, FiniteSets, TLC

VARIABLES
    overflow_checks,  \* build profile: TRUE = overflow panics, FALSE = wraps
    panicked,         \* the process has panicked
    \* ---- partitioner run (SpecPartition) ----
    area,             \* the Rect handed to LogList::partition
    count,            \* the number of items of the list (self.len())
    part,             \* the LogListPartitioner
    yielded,          \* the rectangles next() has returned so far, in order
    exhausted,        \* next() has returned None
    \* ---- selectable list (Spec) ----
    slist,            \* the SelectableLogList (selection, list, min_height)
    clock,            \* Local::now(), a logical timestamp
    inserted,         \* history: every chunk ever inserted, newest first
    last_op,          \* the operation that produced this state
    \* ---- one PacketChunk (SpecChunk) ----
    probe,            \* the PacketChunk under measurement
    measured,         \* its sent(), received() and loss(), once computed
    \* ---- main loop (SpecMain) ----
    pc,               \* where the loop of main stands
    internal_size,    \* the terminal size the loop last adopted
    redraw,           \* the redraw flag
    sleep,            \* the current Sleep: the index of its timer
    timers,           \* every Sleep created: its ready flag and its worker
    batches,          \* probe batches performed (and inserted) so far
    drawn,            \* batches in the list when it was last drawn
    \* ---- one draw of the selectable list (SpecDraw) ----
    layout            \* what the last draw laid out on the terminal

vars == <<overflow_checks, panicked, area, count, part, yielded, exhausted,
          slist, clock, inserted, last_op, probe, measured,
          pc, internal_size, redraw, sleep, timers, batches, drawn, layout>>

partVars == <<area, count, part, yielded, exhausted>>
listVars == <<slist, clock, inserted, last_op>>
chunkVars == <<probe, measured>>
mainVars == <<pc, internal_size, redraw, sleep, timers, batches, drawn>>
drawVars == <<layout>>

(***************************************************************************)
(* Bounds of the model.                                                    *)
(***************************************************************************)
MaxWidth == 3
MaxHeight == 3
MaxCount == 5
MaxOffset == 1
MaxCapacity == 4
MaxInserts == 4
MaxLatency == 1
MaxChunkSize == 4
MaxDrawLen == 9
MaxDrawHeight == 7
MaxBatches == 3

\* Areas beyond the small grid: the 80x24 terminal of the scenario and an
\* area whose (height-1)*width does not fit 16 bits.
LargeAreas == {<<80, 24>>, <<256, 257>>}

(***************************************************************************)
(* Machine integers.                                                       *)
(***************************************************************************)
U16Modulus == 65536
\* stands for usize::MAX: larger than every length the model reaches
USIZE_MAX == 2147483647
\* f64 INFINITY: larger than every latency
INFINITY == 2147483646

min(a, b) == IF a <= b THEN a ELSE b

\* Option<T>
None == <<>>
Some(v) == <<v>>
is_some(o) == Len(o) = 1
unwrap(o) == o[1]

(***************************************************************************)
(* tui::layout::Rect                                                       *)
(***************************************************************************)
Rect(x, y, w, h) == [x |-> x, y |-> y, width |-> w, height |-> h]

(***************************************************************************)
(* LogListPartitioner                                                      *)
(***************************************************************************)
\* LogList::partition: the item count is cast to u16
partition(len, size) ==
    [x |-> 0, y |-> 0,
     offset_x |-> size.x, offset_y |-> size.y,
     width |-> size.width, max_width |-> size.width,
     height |-> size.height,
     length |-> len % U16Modulus]

ceil(a, b) == IF a = 0 THEN 0 ELSE 1 + ((a - 1) \div b)

\* advance_x without the reset at the end of the row
advance_x_no_reset(x, width, max_width) == (x + width) % U16Modulus

\* x after the rectangle is consumed: back to column 0 at the end of the row
advance_x(x, width, max_width) ==
    IF (x + width) % U16Modulus = max_width THEN 0 ELSE (x + width) % U16Modulus

\* One call of next().  kind is "None", "Some" or "panic"; overflow lists
\* whether a u16 operation left 0..65535 (a panic under overflow checks).
next(self, checks) ==
    IF self.height = 0 \/ self.length = 0
    THEN [kind |-> "None", self |-> self, rect |-> Rect(0, 0, 0, 0), overflow |-> FALSE]
    ELSE
    LET x == self.x
        y == self.y
        prod == (self.height - 1) * self.max_width
        after == min(self.length, prod % U16Modulus)
        wsum == (self.length - after) + 1
        wdiv0 == wsum % U16Modulus
        hdiv == min(self.height, self.length)
        wdiv == IF self.height = 1 /\ wdiv0 > 0 THEN wdiv0 - 1 ELSE wdiv0
        divzero == self.width # 0 /\ wdiv = 0
        width == IF divzero THEN 0 ELSE ceil(self.width, wdiv)
        height == ceil(self.height, hdiv)
        w1 == self.width - width
        h1 == self.height - (height - 1)
        wrap == (w1 % U16Modulus) = 0 /\ (h1 % U16Modulus) > 1
        w2 == IF wrap THEN self.max_width ELSE w1 % U16Modulus
        h2 == IF wrap THEN (h1 % U16Modulus) - 1 ELSE h1 % U16Modulus
        y1 == IF wrap THEN y + 1 ELSE y
        xsum == x + width
        y2 == (y1 % U16Modulus) + (height - 1)
        rx == x + self.offset_x
        ry == y + self.offset_y
        overflow == \/ prod >= U16Modulus
                    \/ wsum >= U16Modulus
                    \/ w1 < 0 \/ h1 < 0
                    \/ y1 >= U16Modulus \/ xsum >= U16Modulus \/ y2 >= U16Modulus
                    \/ rx >= U16Modulus \/ ry >= U16Modulus
        after_state == [self EXCEPT !.width = w2, !.height = h2,
                                    !.x = advance_x(x, width, self.max_width),
                                    !.y = y2 % U16Modulus,
                                    !.length = self.length - 1]
    IN  IF divzero \/ (checks /\ overflow)
        THEN [kind |-> "panic", self |-> self, rect |-> Rect(0, 0, 0, 0), overflow |-> overflow]
        ELSE [kind |-> "Some", self |-> after_state,
              rect |-> Rect(rx % U16Modulus, ry % U16Modulus, width, height),
              overflow |-> overflow]

(***************************************************************************)
(* A run of one partitioner: partition(area) then next() until None.      *)
(***************************************************************************)
Areas ==
    {Rect(x, y, w, h) : x \in 0..MaxOffset, y \in 0..MaxOffset,
                        w \in 0..MaxWidth, h \in 0..MaxHeight}
    \cup {Rect(0, 0, a[1], a[2]) : a \in LargeAreas}

ListIdle ==
    /\ slist = [selection |-> None,
                list |-> [items |-> <<>>, min_latency |-> INFINITY, max |-> 0],
                min_height |-> 5]
    /\ clock = 0
    /\ inserted = <<>>
    /\ last_op = "new"

ChunkIdle ==
    /\ probe = <<>>
    /\ measured = None

\* no draw has happened
NoLayout ==
    [size |-> Rect(0, 0, 0, 0), overlay |-> FALSE,
     inspect |-> Rect(0, 0, 0, 0), list_area |-> Rect(0, 0, 0, 0)]

DrawIdle == layout = NoLayout

MainIdle ==
    /\ pc = "idle"
    /\ internal_size = Rect(0, 0, 0, 0)
    /\ redraw = FALSE
    /\ sleep = 0
    /\ timers = <<>>
    /\ batches = 0
    /\ drawn = 0

\* a history one entry longer than a u16 counts
LargeCounts == {U16Modulus}

InitPartition ==
    /\ overflow_checks \in BOOLEAN
    /\ panicked = FALSE
    /\ area \in Areas
    /\ count \in (0..MaxCount) \cup LargeCounts
    /\ part = partition(count, area)
    /\ yielded = <<>>
    /\ exhausted = FALSE
    /\ ListIdle
    /\ ChunkIdle
    /\ MainIdle
    /\ DrawIdle

PartitionerNext ==
    /\ ~panicked
    /\ ~exhausted
    /\ LET r == next(part, overflow_checks)
       IN  /\ part' = r.self
           /\ panicked' = (r.kind = "panic")
           /\ exhausted' = (r.kind = "None")
           /\ yielded' = IF r.kind = "Some" THEN Append(yielded, r.rect) ELSE yielded
    /\ UNCHANGED <<overflow_checks, area, count>>
    /\ UNCHANGED <<listVars, chunkVars, mainVars, drawVars>>

NextPartition == PartitionerNext

SpecPartition == InitPartition /\ [][NextPartition]_vars

(***************************************************************************)
(* PacketChunk (src/src/ping.rs)                                           *)
(***************************************************************************)
\* the ping timeout in milliseconds; every measured latency is below it
Timeout == MaxLatency + 1

\* PingItem of a packet that came back, and of one that was dropped
PingItems ==
    {[dropped |-> 0, latency_ms |-> l] : l \in 1..MaxLatency}
    \cup {[dropped |-> 1, latency_ms |-> 0]}

\* one slot of a batch: do_ping().ok()
Slots == {None} \cup {Some(p) : p \in PingItems}

\* the batches Ping::ping returns the packets of: every batch of chunk size
\* 0 and 1, and one of chunk size 2 with a received and a failed packet
Batches ==
    UNION {[1..n -> Slots] : n \in {0, 1}}
    \cup {<<Some([dropped |-> 0, latency_ms |-> 1]), None>>}

PacketChunk_new(timeout, now) ==
    [packets |-> <<>>, time |-> now, timeout |-> timeout,
     tint |-> <<0, 0, 0>>, tint_weight |-> 0]

ping(batch, now) ==
    [PacketChunk_new(Timeout, now) EXCEPT !.packets = batch]

\* tint_weight clamps the weight to [0.0, 1.0] (tenths)
tint_weight(chunk, weight) ==
    [chunk EXCEPT !.tint_weight =
        IF weight > 10 THEN 10 ELSE IF weight < 0 THEN 0 ELSE weight]

RECURSIVE latency_acc(_, _)
latency_acc(packets, timeout) ==
    IF packets = <<>> THEN 0
    ELSE (IF is_some(Head(packets))
          THEN (IF unwrap(Head(packets)).dropped # 0
                THEN timeout
                ELSE unwrap(Head(packets)).latency_ms)
          ELSE timeout)
         + latency_acc(Tail(packets), timeout)

latency(chunk) == latency_acc(chunk.packets, chunk.timeout)

sent(chunk) == Len(chunk.packets)

\* received counting every slot that is present, dropped or not
received_ignoring_dropped(chunk) ==
    Cardinality({i \in 1..Len(chunk.packets) : is_some(chunk.packets[i])})

received(chunk) ==
    Cardinality({i \in 1..Len(chunk.packets) :
                    /\ is_some(chunk.packets[i])
                    /\ unwrap(chunk.packets[i]).dropped = 0})

\* an f64 ratio, kept exact as numerator over denominator (den > 0)
Ratio(num, den) == [num |-> num, den |-> den]

\* 1f64 - (received as f64 / sent as f64), and 0_f64 for an empty chunk
loss(chunk) ==
    IF sent(chunk) = 0
    THEN Ratio(0, 1)
    ELSE Ratio(sent(chunk) - received(chunk), sent(chunk))

(***************************************************************************)
(* LogList (src/src/term.rs)                                               *)
(***************************************************************************)
LogList_new(max) == [items |-> <<>>, min_latency |-> INFINITY, max |-> max]

pop_back(deque) ==
    IF deque = <<>> THEN deque ELSE SubSeq(deque, 1, Len(deque) - 1)

\* the smallest latency() of a sequence of chunks, INFINITY when empty
RECURSIVE MinLatencyOf(_)
MinLatencyOf(chunks) ==
    IF chunks = <<>> THEN INFINITY
    ELSE min(latency(Head(chunks)), MinLatencyOf(Tail(chunks)))

\* LogList_insert evicting with pop_front: the newest entry goes, not the oldest
LogList_insert_pop_front(self, item) ==
    LET min_latency == IF latency(item) < self.min_latency
                       THEN latency(item) ELSE self.min_latency
        pushed == <<item>> \o self.items
    IN  [self EXCEPT !.min_latency = min_latency,
                     !.items = IF Len(pushed) >= self.max
                               THEN Tail(pushed) ELSE pushed]

\* LogList_insert keeping the minimum over the retained entries only
LogList_insert_min_of_retained(self, item) ==
    LET pushed == <<item>> \o self.items
        kept == IF Len(pushed) >= self.max THEN pop_back(pushed) ELSE pushed
    IN  [self EXCEPT !.min_latency = MinLatencyOf(kept), !.items = kept]

LogList_insert(self, item) ==
    LET min_latency == IF latency(item) < self.min_latency
                       THEN latency(item) ELSE self.min_latency
        pushed == <<item>> \o self.items
    IN  [self EXCEPT !.min_latency = min_latency,
                     !.items = IF Len(pushed) >= self.max
                               THEN pop_back(pushed) ELSE pushed]

(***************************************************************************)
(* SelectableLogList (src/src/term.rs).  A method returns the object and  *)
(* whether the call panicked; the object of a panicked call is the state  *)
(* it had reached.                                                         *)
(***************************************************************************)
SelectableLogList_new(max) ==
    [selection |-> None, list |-> LogList_new(max), min_height |-> 5]

Returned(self) == [panicked |-> FALSE, self |-> self]
Panicked(self) == [panicked |-> TRUE, self |-> self]

len(self) == Len(self.list.items)

\* self.list.items[i].tint_weight(weight): VecDeque indexing panics when
\* i is out of bounds
items_tint_weight(self, i, weight) ==
    IF i >= len(self)
    THEN Panicked(self)
    ELSE Returned([self EXCEPT !.list.items[i + 1] = tint_weight(@, weight)])

\* select leaving the tint on the previously selected entry
select_keeps_old_tint(self, i) ==
    items_tint_weight([self EXCEPT !.selection = Some(i)], i, 5)

select(self, i) ==
    LET untinted == IF is_some(self.selection)
                    THEN items_tint_weight(self, unwrap(self.selection), 0)
                    ELSE Returned(self)
    IN  IF untinted.panicked
        THEN untinted
        ELSE items_tint_weight([untinted.self EXCEPT !.selection = Some(i)], i, 5)

SelectableLogList_insert(self, item) ==
    LET after == [self EXCEPT !.list = LogList_insert(self.list, item)]
    IN  IF is_some(after.selection)
        THEN IF unwrap(after.selection) > 0
             THEN select(after, unwrap(after.selection) + 1)
             ELSE items_tint_weight(after, 1, 0)
        ELSE Returned(after)

clear(self) ==
    LET untinted == IF is_some(self.selection)
                    THEN items_tint_weight(self, unwrap(self.selection), 0)
                    ELSE Returned(self)
    IN  IF untinted.panicked
        THEN untinted
        ELSE Returned([untinted.self EXCEPT !.selection = None])

has_selection(self) ==
    is_some(self.selection) /\ unwrap(self.selection) < len(self)

\* self.len() - 1 in usize: 0 - 1 panics under overflow checks, else wraps
len_minus_one(self, checks) ==
    IF len(self) >= 1 THEN Returned(len(self) - 1)
    ELSE IF checks THEN Panicked(0) ELSE Returned(USIZE_MAX)

select_next(self, checks) ==
    IF is_some(self.selection)
    THEN LET last == len_minus_one(self, checks)
         IN  IF last.panicked THEN Panicked(self)
             ELSE IF unwrap(self.selection) < last.self
                  THEN select(self, unwrap(self.selection) + 1)
                  ELSE Returned(self)
    ELSE select(self, 0)

select_prev(self) ==
    IF is_some(self.selection)
    THEN IF unwrap(self.selection) > 0
         THEN select(self, unwrap(self.selection) - 1)
         ELSE Returned(self)
    ELSE select(self, 0)

select_last(self, checks) ==
    LET last == len_minus_one(self, checks)
    IN  IF last.panicked THEN Panicked(self) ELSE select(self, last.self)

select_first(self) == select(self, 0)

(***************************************************************************)
(* Rendering (src/src/term.rs).  What a draw paints is the list of         *)
(* rectangles handed to the entries, in order.                             *)
(***************************************************************************)
\* tui Block::inner with Borders::ALL: one cell off every side, the empty
\* Rect when the area is too small to hold the border
Block_inner(r) ==
    IF r.width < 2 \/ r.height < 2
    THEN Rect(0, 0, 0, 0)
    ELSE Rect(r.x + 1, r.y + 1, r.width - 2, r.height - 2)

\* self.items.iter_mut().zip(partitions): next() is called once per item
\* and the zip ends at the first None
RECURSIVE zip_partitions(_, _, _)
zip_partitions(n, p, checks) ==
    IF n = 0 THEN [panicked |-> FALSE, rects |-> <<>>]
    ELSE LET r == next(p, checks)
         IN  IF r.kind = "None" THEN [panicked |-> FALSE, rects |-> <<>>]
             ELSE IF r.kind = "panic" THEN [panicked |-> TRUE, rects |-> <<>>]
             ELSE LET rest == zip_partitions(n - 1, r.self, checks)
                  IN  [panicked |-> rest.panicked,
                       rects |-> <<r.rect>> \o rest.rects]

\* Widget for LogList: draw.  block says whether self.block is Some.
LogList_draw(list, block, size, checks) ==
    LET inner == IF block THEN Block_inner(size) ELSE size
    IN  IF inner.width = 0 \/ inner.height = 0
        THEN [panicked |-> FALSE, rects |-> <<>>]
        ELSE zip_partitions(Len(list.items), partition(Len(list.items), inner), checks)

\* the result of a SelectableLogList draw: overlay tells whether the inspect
\* region was painted, inspect is its rectangle and list_area the area
\* handed to the list
Drawn(self, did_panic, overlay, inspect, list_area, rects) ==
    [panicked |-> did_panic, self |-> self, overlay |-> overlay,
     inspect |-> inspect, list_area |-> list_area, rects |-> rects]

\* the tint the draw leaves on the entry it painted in the inspect region
restore_tint(self, i) ==
    [self EXCEPT !.list.items[i + 1] = tint_weight(tint_weight(@, 0), 5)]

\* Widget for SelectableLogList: draw
SelectableLogList_draw(self, size, checks) ==
    IF size.width = 0 \/ size.height = 0
    THEN Drawn(self, FALSE, FALSE, Rect(0, 0, 0, 0), size, <<>>)
    ELSE IF ~has_selection(self)
    THEN LET plain == LogList_draw(self.list, FALSE, size, checks)
         IN  Drawn(self, plain.panicked, FALSE, Rect(0, 0, 0, 0), size, plain.rects)
    ELSE
    LET i == unwrap(self.selection)
        first == next(partition(len(self), size), checks)
        h0 == IF first.rect.height < self.min_height
              THEN self.min_height ELSE first.rect.height
        h1 == IF h0 % 2 = 0 THEN h0 + 1 ELSE h0
        rect == [first.rect EXCEPT !.height = h1 % U16Modulus]
        ysum == size.y + rect.height
        below == [size EXCEPT !.height = size.height - rect.height,
                              !.y = ysum % U16Modulus]
    IN  IF first.kind # "Some" \/ (checks /\ h1 >= U16Modulus)
        THEN Drawn(self, TRUE, FALSE, Rect(0, 0, 0, 0), size, <<>>)
        ELSE IF rect.height > size.height \/ rect.width > size.width
        THEN LET plain == LogList_draw(self.list, FALSE, size, checks)
             IN  Drawn(self, plain.panicked, FALSE, Rect(0, 0, 0, 0), size, plain.rects)
        ELSE IF checks /\ ysum >= U16Modulus
        THEN Drawn(restore_tint(self, i), TRUE, TRUE, rect, size, <<>>)
        ELSE LET framed == LogList_draw(self.list, TRUE, below, checks)
             IN  Drawn(restore_tint(self, i), framed.panicked, TRUE, rect, below,
                       framed.rects)

\* the sizes terminal.size() reports: none, too low for the inspect region,
\* just high enough, roomy, and one whose cell count passes 16 bits
TerminalSizes ==
    {Rect(0, 0, 0, 0), Rect(0, 0, 2, 4), Rect(0, 0, 2, 5), Rect(0, 0, 3, 7),
     Rect(0, 0, 256, 257)}

(***************************************************************************)
(* The selectable list under any sequence of its operations.               *)
(***************************************************************************)
PartitionIdle ==
    /\ area = Rect(0, 0, 0, 0)
    /\ count = 0
    /\ part = partition(0, Rect(0, 0, 0, 0))
    /\ yielded = <<>>
    /\ exhausted = FALSE

Init ==
    /\ overflow_checks \in BOOLEAN
    /\ panicked = FALSE
    /\ \E max \in 0..MaxCapacity : slist = SelectableLogList_new(max)
    /\ clock = 0
    /\ inserted = <<>>
    /\ last_op = "new"
    /\ PartitionIdle
    /\ ChunkIdle
    /\ MainIdle
    /\ DrawIdle

\* the outcome r of one method call becomes the next state
Call(op, r) ==
    /\ slist' = r.self
    /\ panicked' = r.panicked
    /\ last_op' = op
    /\ UNCHANGED overflow_checks
    /\ UNCHANGED <<partVars, chunkVars, mainVars, drawVars>>

\* chunk = ping.ping(chunk_size); list.insert(chunk)
Insert ==
    /\ ~panicked
    /\ clock < MaxInserts
    /\ \E batch \in Batches :
         LET chunk == ping(batch, clock + 1)
         IN  /\ Call("insert", SelectableLogList_insert(slist, chunk))
             /\ inserted' = <<chunk>> \o inserted
             /\ clock' = clock + 1

SelectNext ==
    /\ ~panicked
    /\ Call("select_next", select_next(slist, overflow_checks))
    /\ UNCHANGED <<clock, inserted>>

SelectPrev ==
    /\ ~panicked
    /\ Call("select_prev", select_prev(slist))
    /\ UNCHANGED <<clock, inserted>>

SelectLast ==
    /\ ~panicked
    /\ Call("select_last", select_last(slist, overflow_checks))
    /\ UNCHANGED <<clock, inserted>>

SelectFirst ==
    /\ ~panicked
    /\ Call("select_first", select_first(slist))
    /\ UNCHANGED <<clock, inserted>>

Clear ==
    /\ ~panicked
    /\ Call("clear", clear(slist))
    /\ UNCHANGED <<clock, inserted>>

\* terminal.draw(|mut f| list.render(&mut f, size))
Draw ==
    /\ ~panicked
    /\ \E size \in TerminalSizes :
         Call("draw", SelectableLogList_draw(slist, size, overflow_checks))
    /\ UNCHANGED <<clock, inserted>>

Next ==
    \/ Insert
    \/ SelectNext
    \/ SelectPrev
    \/ SelectLast
    \/ SelectFirst
    \/ Clear
    \/ Draw

Spec == Init /\ [][Next]_vars

(***************************************************************************)
(* One PacketChunk of any batch up to MaxChunkSize packets, measured.     *)
(***************************************************************************)
ChunkBatches == UNION {[1..n -> Slots] : n \in 0..MaxChunkSize}

InitChunk ==
    /\ overflow_checks \in BOOLEAN
    /\ panicked = FALSE
    /\ \E batch \in ChunkBatches : probe = ping(batch, 0)
    /\ measured = None
    /\ PartitionIdle
    /\ ListIdle
    /\ MainIdle
    /\ DrawIdle

\* sent(), received() and loss() of the chunk
Measure ==
    /\ measured = None
    /\ measured' = Some([sent |-> sent(probe), received |-> received(probe),
                         loss |-> loss(probe)])
    /\ UNCHANGED <<overflow_checks, panicked, probe>>
    /\ UNCHANGED <<partVars, listVars, mainVars, drawVars>>

NextChunk == Measure

SpecChunk == InitChunk /\ [][NextChunk]_vars

(***************************************************************************)
(* One draw of a selectable list: any history length, any selection, any   *)
(* terminal area.                                                          *)
(***************************************************************************)
\* the list after n inserts, at times 1..n, into a new list that keeps them
\* all (max > n): the newest entry first, no selection
Filled(n, max) ==
    LET chunks == [k \in 1..n |->
                     ping(<<Some([dropped |-> 0, latency_ms |-> 1])>>, n + 1 - k)]
    IN  [selection |-> None,
         list |-> [items |-> chunks, min_latency |-> MinLatencyOf(chunks),
                   max |-> max],
         min_height |-> 5]

DrawAreas ==
    {Rect(x, y, w, h) : x \in 0..MaxOffset, y \in 0..MaxOffset,
                        w \in 0..MaxWidth, h \in 0..MaxDrawHeight}
    \cup {Rect(0, 0, a[1], a[2]) : a \in LargeAreas}

InitDraw ==
    /\ overflow_checks \in BOOLEAN
    /\ panicked = FALSE
    /\ \E n \in 0..MaxDrawLen :
         /\ \/ slist = Filled(n, n + 1)
            \/ \E i \in 0..(n - 1) : slist = select(Filled(n, n + 1), i).self
         /\ clock = n
         /\ inserted = slist.list.items
    /\ last_op = "new"
    /\ DrawIdle
    /\ PartitionIdle
    /\ ChunkIdle
    /\ MainIdle

\* the outcome d of a draw on size becomes the next state
Rendered(size, d) ==
    /\ slist' = d.self
    /\ panicked' = d.panicked
    /\ layout' = [size |-> size, overlay |-> d.overlay,
                  inspect |-> d.inspect, list_area |-> d.list_area]

\* list.render(&mut f, size), recording what went where
DrawLayout ==
    /\ ~panicked
    /\ last_op = "new"
    /\ \E size \in DrawAreas :
         Rendered(size, SelectableLogList_draw(slist, size, overflow_checks))
    /\ last_op' = "draw"
    /\ UNCHANGED <<overflow_checks, clock, inserted>>
    /\ UNCHANGED <<partVars, chunkVars, mainVars>>

NextDraw == DrawLayout

SpecDraw == InitDraw /\ [][NextDraw]_vars

(***************************************************************************)
(* The loop of main: size check, redraw, probe batch when the timer is     *)
(* ready, one event.  Timers are numbered in creation order; each has its  *)
(* own ready flag and at most one worker thread.                           *)
(***************************************************************************)
\* Sleep::new(): ready from the start, no thread
Sleep_new == [ready |-> TRUE, worker |-> "none"]

\* Sleep::sleep(time): a new flag, not set, and a thread that will set it
Sleep_sleep(ts) == Append(ts, [ready |-> FALSE, worker |-> "sleeping"])

\* Sleep::done()
Sleep_done(ts, s) == ts[s].ready

\* what terminal.size() may report
MainSizes == {Rect(0, 0, 2, 5), Rect(0, 0, 3, 7)}

\* what events.next() may deliver: the keys main matches on and anything else
Events == {"q", "j", "k", "g", "G", "Esc", "other"}

\* the timestamp of the newest entry of the buffer, 0 for an empty buffer
Newest(self) == IF len(self) = 0 THEN 0 ELSE self.list.items[1].time

InitMain ==
    /\ overflow_checks \in BOOLEAN
    /\ panicked = FALSE
    /\ \E max \in 0..MaxCapacity : slist = SelectableLogList_new(max)
    /\ clock = 0
    /\ inserted = <<>>
    /\ last_op = "new"
    /\ pc = "size"
    /\ internal_size \in MainSizes
    /\ redraw = TRUE
    /\ timers = <<Sleep_new>>
    /\ sleep = 1
    /\ batches = 0
    /\ drawn = 0
    /\ PartitionIdle
    /\ ChunkIdle
    /\ DrawIdle

\* let size = terminal.size()?; if size != internal_size { ...; continue }
CheckSize ==
    /\ pc = "size"
    /\ \E size \in MainSizes :
         IF size # internal_size
         THEN /\ internal_size' = size
              /\ redraw' = TRUE
              /\ pc' = "size"
         ELSE /\ pc' = "redraw"
              /\ UNCHANGED <<internal_size, redraw>>
    /\ UNCHANGED <<overflow_checks, panicked, sleep, timers, batches, drawn>>
    /\ UNCHANGED <<partVars, listVars, chunkVars, drawVars>>

\* the outcome d of list.render in the loop: a panic ends the process
Redrawn(d) ==
    /\ slist' = d.self
    /\ panicked' = d.panicked
    /\ last_op' = "draw"
    /\ drawn' = IF d.panicked THEN drawn ELSE Newest(slist)
    /\ pc' = IF d.panicked THEN "exited" ELSE "done"

\* if redraw { redraw = false; terminal.draw(|mut f| list.render(&mut f, size)) }
Redraw ==
    /\ pc = "redraw"
    /\ IF redraw
       THEN /\ redraw' = FALSE
            /\ Redrawn(SelectableLogList_draw(slist, internal_size, overflow_checks))
       ELSE /\ pc' = "done"
            /\ UNCHANGED <<redraw, slist, panicked, last_op, drawn>>
    /\ UNCHANGED <<overflow_checks, clock, inserted, internal_size, sleep,
                   timers, batches>>
    /\ UNCHANGED <<partVars, chunkVars, drawVars>>

\* if sleep.done() { chunk = ping.ping(chunk_size)?; list.insert(chunk);
\*                   sleep = Sleep::sleep(interval); redraw = true }
CheckDone ==
    /\ pc = "done"
    /\ IF Sleep_done(timers, sleep)
       THEN /\ batches < MaxBatches
            /\ \E batch \in {<<None>>, <<Some([dropped |-> 0, latency_ms |-> 1])>>} :
                 LET chunk == ping(batch, clock + 1)
                     r == SelectableLogList_insert(slist, chunk)
                 IN  /\ slist' = r.self
                     /\ panicked' = r.panicked
                     /\ last_op' = "insert"
                     /\ inserted' = <<chunk>> \o inserted
                     /\ clock' = clock + 1
                     /\ IF r.panicked
                        THEN /\ pc' = "exited"
                             /\ UNCHANGED <<sleep, timers, redraw, batches>>
                        ELSE /\ timers' = Sleep_sleep(timers)
                             /\ sleep' = Len(timers) + 1
                             /\ redraw' = TRUE
                             /\ batches' = batches + 1
                             /\ pc' = "events"
       ELSE /\ pc' = "events"
            /\ UNCHANGED <<slist, panicked, last_op, inserted, clock, sleep,
                           timers, redraw, batches>>
    /\ UNCHANGED <<overflow_checks, internal_size, drawn>>
    /\ UNCHANGED <<partVars, chunkVars, drawVars>>

\* match events.next()? { ... }
NextEvent ==
    /\ pc = "events"
    /\ \E e \in Events :
         IF e = "q"
         THEN /\ pc' = "exited"
              /\ UNCHANGED <<slist, panicked, last_op, redraw>>
         ELSE IF e = "other"
         THEN /\ pc' = "size"
              /\ UNCHANGED <<slist, panicked, last_op, redraw>>
         ELSE LET r == CASE e = "j" -> select_next(slist, overflow_checks)
                         [] e = "k" -> select_prev(slist)
                         [] e = "g" -> select_first(slist)
                         [] e = "G" -> select_last(slist, overflow_checks)
                         [] e = "Esc" -> clear(slist)
              IN  /\ slist' = r.self
                  /\ panicked' = r.panicked
                  /\ last_op' = CASE e = "j" -> "select_next"
                                  [] e = "k" -> "select_prev"
                                  [] e = "g" -> "select_first"
                                  [] e = "G" -> "select_last"
                                  [] e = "Esc" -> "clear"
                  /\ redraw' = IF r.panicked THEN redraw ELSE TRUE
                  /\ pc' = IF r.panicked THEN "exited" ELSE "size"
    /\ UNCHANGED <<overflow_checks, clock, inserted, internal_size, sleep,
                   timers, batches, drawn>>
    /\ UNCHANGED <<partVars, chunkVars, drawVars>>

\* any of the calls followed by ? returns Err: main returns
IoError ==
    /\ pc # "exited"
    /\ pc' = "exited"
    /\ UNCHANGED <<overflow_checks, panicked, internal_size, redraw, sleep,
                   timers, batches, drawn>>
    /\ UNCHANGED <<partVars, listVars, chunkVars, drawVars>>

\* the thread spawned by Sleep::sleep: thread::sleep(time); notify.store(true)
WorkerWake ==
    /\ pc # "exited"
    /\ \E t \in 1..Len(timers) :
         /\ timers[t].worker = "sleeping"
         /\ timers' = [timers EXCEPT ![t] = [ready |-> TRUE, worker |-> "finished"]]
    /\ UNCHANGED <<overflow_checks, panicked, pc, internal_size, redraw, sleep,
                   batches, drawn>>
    /\ UNCHANGED <<partVars, listVars, chunkVars, drawVars>>

NextMain ==
    \/ CheckSize
    \/ Redraw
    \/ CheckDone
    \/ NextEvent
    \/ IoError
    \/ WorkerWake

SpecMain == InitMain /\ [][NextMain]_vars

(***************************************************************************)
(* Geometry of the yielded rectangles.                                     *)
(***************************************************************************)
RECURSIVE SumAreas(_)
SumAreas(rects) ==
    IF rects = <<>> THEN 0
    ELSE Head(rects).width * Head(rects).height + SumAreas(Tail(rects))

\* a and b have no cell in common
Disjoint(a, b) ==
    \/ a.width = 0 \/ a.height = 0 \/ b.width = 0 \/ b.height = 0
    \/ a.x + a.width <= b.x \/ b.x + b.width <= a.x
    \/ a.y + a.height <= b.y \/ b.y + b.height <= a.y

PairwiseDisjoint(rects) ==
    \A i \in 1..Len(rects) : \A j \in 1..Len(rects) :
        i < j => Disjoint(rects[i], rects[j])

Inside(r, outer) ==
    /\ r.x >= outer.x
    /\ r.y >= outer.y
    /\ r.x + r.width <= outer.x + outer.width
    /\ r.y + r.height <= outer.y + outer.height

NonEmpty(r) == r.width > 0 /\ r.height > 0

AvailableCells == area.width * area.height

\* C1: a partitioner run to exhaustion has yielded exactly
\* min(n, width*height) rectangles.
C1_YieldsMinOfCountAndCells ==
    exhausted => Len(yielded) = min(count, AvailableCells)

\* C2: the rectangles yielded by one partitioner are pairwise
\* non-overlapping and each lies inside the input area.
C2_DisjointAndInside ==
    /\ PairwiseDisjoint(yielded)
    /\ \A i \in 1..Len(yielded) : Inside(yielded[i], area)

\* C2 witness: a finished run over a 3x2 area that placed five rectangles,
\* several per row and on more than one row.
C2_Witness ==
    /\ exhausted
    /\ area.width = 3 /\ area.height = 2 /\ area.x = 1 /\ area.y = 1
    /\ Len(yielded) = 5
    /\ \A i \in 1..5 : NonEmpty(yielded[i])

\* C3: for width >= 1, height >= 1 and 1 <= n <= width*height the run
\* completes and its n rectangles, none of them empty, exactly tile the area.
C3_ExactTiling ==
    (/\ area.width >= 1 /\ area.height >= 1
     /\ 1 <= count /\ count <= AvailableCells
     /\ (exhausted \/ panicked))
    => /\ ~panicked
       /\ Len(yielded) = count
       /\ \A i \in 1..Len(yielded) : NonEmpty(yielded[i]) /\ Inside(yielded[i], area)
       /\ PairwiseDisjoint(yielded)
       /\ SumAreas(yielded) = AvailableCells

\* C4: for n = 0 or width = 0 or height = 0 the sequence is empty: no
\* rectangle is ever yielded.
C4_EmptyForDegenerateInput ==
    (count = 0 \/ area.width = 0 \/ area.height = 0) => yielded = <<>>

\* C5: for n = 1 the run yields exactly one rectangle, equal to the input
\* area, for every width and height.
C5_SingleItemGetsWholeArea ==
    (count = 1 /\ (exhausted \/ panicked))
    => (~panicked /\ yielded = <<area>>)

(***************************************************************************)
(* History buffer and selection.                                           *)
(***************************************************************************)
items == slist.list.items
capacity == slist.list.max

\* the entries without their selection tint
Untinted(chunks) == [i \in 1..Len(chunks) |-> tint_weight(chunks[i], 0)]

SelectOps == {"select_next", "select_prev", "select_first", "select_last"}

\* C6: after k inserts into a buffer of capacity c >= 1 the buffer holds
\* exactly the min(k, c) most recently inserted entries, newest at index 0.
C6_HoldsMostRecentUpToCapacity ==
    capacity >= 1 =>
        Untinted(items) = SubSeq(inserted, 1, min(Len(inserted), capacity))

\* C7: the number of retained entries never exceeds the capacity, and the
\* entries retained are always the most recently inserted ones in insertion
\* order, newest first: an eviction removes the oldest (back) entry only.
C7_BoundedAndEvictsOldest ==
    /\ Len(items) <= capacity
    /\ Len(items) <= Len(inserted)
    /\ Untinted(items) = SubSeq(inserted, 1, Len(items))

\* C7 witness: an insert has just evicted while two entries are retained.
C7_Witness ==
    /\ last_op = "insert"
    /\ ~panicked
    /\ Len(items) = 2
    /\ Len(inserted) > Len(items)

\* C8: min_latency never increases, and after every insert it is the
\* minimum latency() over all entries ever inserted, evicted ones included.
C8_MinLatencyEver ==
    [][/\ slist'.list.min_latency <= slist.list.min_latency
       /\ inserted' # <<>> => slist'.list.min_latency = MinLatencyOf(inserted')]_vars

\* C8 witness: the entry with the smallest latency has been evicted, every
\* retained entry has a larger latency than min_latency.
C8_Witness ==
    /\ last_op = "insert"
    /\ items # <<>>
    /\ Len(inserted) > Len(items)
    /\ \A i \in 1..Len(items) : latency(items[i]) > slist.list.min_latency
    /\ slist.list.min_latency = MinLatencyOf(inserted)

\* C9: an insert never fails, in particular not the one that evicts the
\* selected entry, and while the process runs the selection is Unselected
\* or an index below the buffer length.
C9_InsertRevalidatesSelection ==
    /\ last_op = "insert" => ~panicked
    /\ (~panicked /\ is_some(slist.selection))
          => unwrap(slist.selection) < len(slist)

\* C10: a selection operation on an empty buffer is a no-op: it does not
\* panic and the selection stays Unselected.
C10_SelectOnEmptyIsNoOp ==
    (last_op \in SelectOps /\ items = <<>>)
    => (~panicked /\ slist.selection = None)

\* the indices (from 0) of the entries with a non-zero tint weight
Tinted == {i \in 0..(Len(items) - 1) : items[i + 1].tint_weight # 0}

\* C11: under insert, the select operations, clear and draw at most one
\* entry has a non-zero tint weight, and it is the entry at the selected
\* index; right after clear the list is Unselected with every tint at 0.
C11_SingleTintAtSelection ==
    /\ Cardinality(Tinted) <= 1
    /\ \A i \in Tinted : slist.selection = Some(i)
    /\ (last_op = "clear" /\ ~panicked) => (slist.selection = None /\ Tinted = {})

\* C11 witness: by inserts and selections the tint sits on the second
\* entry of the buffer.
C11_Witness ==
    /\ ~panicked
    /\ last_op = "insert"
    /\ Len(inserted) >= 2
    /\ Tinted = {2}
    /\ slist.selection = Some(2)

(***************************************************************************)
(* Loss of a batch.                                                        *)
(***************************************************************************)
\* the slots of the measured chunk that hold a packet with the drop flag unset
ReceivedSlots ==
    {i \in 1..Len(probe.packets) :
        probe.packets[i] # None /\ probe.packets[i][1].dropped = 0}

SameRatio(a, b) == a.num * b.den = b.num * a.den
InUnitInterval(a) == 0 <= a.num /\ a.num <= a.den

\* C12 as stated: loss() is within [0,1] and equals 1 - received/sent when
\* received > 0 and 0 otherwise.
C12_LossZeroUnlessReceived ==
    is_some(measured) =>
        /\ InUnitInterval(unwrap(measured).loss)
        /\ SameRatio(unwrap(measured).loss,
                     IF Cardinality(ReceivedSlots) > 0
                     THEN Ratio(Len(probe.packets) - Cardinality(ReceivedSlots),
                                Len(probe.packets))
                     ELSE Ratio(0, 1))

\* C12 amended: loss() is within [0,1] and equals 1 - received/sent when
\* sent > 0 and 0 when sent = 0, received counting the slots that are present
\* with the drop flag unset: a batch that lost every packet has loss 1.
C12_LossZeroOnlyWhenNothingSent ==
    is_some(measured) =>
        /\ InUnitInterval(unwrap(measured).loss)
        /\ unwrap(measured).received = Cardinality(ReceivedSlots)
        /\ SameRatio(unwrap(measured).loss,
                     IF Len(probe.packets) > 0
                     THEN Ratio(Len(probe.packets) - Cardinality(ReceivedSlots),
                                Len(probe.packets))
                     ELSE Ratio(0, 1))

\* C12 witness: a measured batch of several packets, one of them absent and
\* one dropped, none received: its loss is 1.
C12_Witness ==
    /\ is_some(measured)
    /\ Len(probe.packets) >= 2
    /\ ReceivedSlots = {}
    /\ \E i \in 1..Len(probe.packets) : probe.packets[i] = None
    /\ \E i \in 1..Len(probe.packets) :
          probe.packets[i] # None /\ probe.packets[i][1].dropped # 0
    /\ SameRatio(unwrap(measured).loss, Ratio(1, 1))

(***************************************************************************)
(* Selection transitions.  A step of operation op is one that sets         *)
(* last_op to op; i is the selected index before the step.                 *)
(***************************************************************************)
InsertStep == last_op' = "insert" /\ clock' = clock + 1

TintedAfter == {i \in 0..(Len(slist'.list.items) - 1) :
                    slist'.list.items[i + 1].tint_weight # 0}

\* after the step index k is selected, holds tint 0.5 and no other entry
\* holds any tint
SelectedAndTintedAfter(k) ==
    /\ ~panicked'
    /\ slist'.selection = Some(k)
    /\ k < Len(slist'.list.items)
    /\ slist'.list.items[k + 1].tint_weight = 5
    /\ TintedAfter = {k}

\* C13: an insert while Selected(i), i > 0, moves the selection to i+1,
\* which is the entry that was selected before, the only one tinted 0.5.
C13_InsertKeepsSelectedEntry ==
    [][(InsertStep /\ is_some(slist.selection) /\ unwrap(slist.selection) > 0)
       => /\ SelectedAndTintedAfter(unwrap(slist.selection) + 1)
          /\ slist'.list.items[unwrap(slist.selection) + 2].time
               = items[unwrap(slist.selection) + 1].time]_vars

\* C14: an insert while Selected(0) completes for every capacity >= 1,
\* leaves the selection at 0, and the entry now at index 1, the one selected
\* before, has tint weight 0.
C14_InsertAtTopCompletes ==
    [][(InsertStep /\ slist.selection = Some(0) /\ capacity >= 1)
       => /\ ~panicked'
          /\ slist'.selection = Some(0)
          /\ Len(slist'.list.items) >= 2
          /\ slist'.list.items[2].time = items[1].time
          /\ slist'.list.items[2].tint_weight = 0]_vars

\* C15: on a non-empty buffer select_next, select_prev, select_first and
\* select_last follow the transition table, and afterwards the entry at the
\* resulting index has tint 0.5 and every other entry tint 0.
C15_NavigationTable ==
    [][(Len(items) >= 1 /\ last_op' \in SelectOps)
       => LET last == Len(items) - 1
              i == IF is_some(slist.selection) THEN unwrap(slist.selection) ELSE 0
          IN  /\ last_op' = "select_next" =>
                   SelectedAndTintedAfter(IF is_some(slist.selection)
                                          THEN min(i + 1, last) ELSE 0)
              /\ last_op' = "select_prev" =>
                   SelectedAndTintedAfter(IF is_some(slist.selection) /\ i >= 1
                                          THEN i - 1 ELSE 0)
              /\ last_op' = "select_first" => SelectedAndTintedAfter(0)
              /\ last_op' = "select_last" => SelectedAndTintedAfter(last)]_vars

\* C16: a draw that returns leaves the selection and the tint weight of
\* every entry as they were before it.
C16_DrawKeepsSelectionState ==
    [][(last_op' = "draw" /\ ~panicked') => slist' = slist]_vars

\* C17: whenever the overlay is drawn, the inspect rectangle lies inside the
\* area and the packet-list area is the rest of it: the two are disjoint and
\* together cover every cell of the area.
C17_OverlaySplitsArea ==
    (layout.overlay /\ ~panicked)
    => /\ Inside(layout.inspect, layout.size)
       /\ Inside(layout.list_area, layout.size)
       /\ Disjoint(layout.inspect, layout.list_area)
       /\ layout.inspect.width * layout.inspect.height
            + layout.list_area.width * layout.list_area.height
          = layout.size.width * layout.size.height

\* C18: when 1 <= n <= height and width >= 1 every yielded rectangle spans
\* the full width of the area, the rectangles are stacked top to bottom in
\* yield order, and the heights of any two differ by at most 1.
C18_OnePerRowBand ==
    (1 <= count /\ count <= area.height /\ area.width >= 1)
    => /\ \A i \in 1..Len(yielded) :
            /\ yielded[i].x = area.x
            /\ yielded[i].width = area.width
            /\ yielded[i].y = IF i = 1 THEN area.y
                              ELSE yielded[i - 1].y + yielded[i - 1].height
       /\ \A i \in 1..Len(yielded) : \A j \in 1..Len(yielded) :
            yielded[i].height - yielded[j].height <= 1

\* C19: no u16 operation of the partitioner leaves 0..65535, for any area
\* and any buffer length, and the item count the partitioner starts from is
\* the buffer length.
C19_ArithmeticStaysInU16 ==
    /\ (~panicked /\ ~exhausted) => ~next(part, overflow_checks).overflow
    /\ yielded = <<>> => part.length = count

(***************************************************************************)
(* The probe timer of the main loop.                                       *)
(***************************************************************************)
\* a step of the loop that performs a probe batch and inserts it
BatchStep == batches' = batches + 1

\* the flag of the current timer goes from not set to set
BecomesReady ==
    /\ sleep' = sleep
    /\ ~Sleep_done(timers, sleep)
    /\ Sleep_done(timers', sleep)

\* C20: a batch is performed only when the current timer is ready, and the
\* timer is then replaced by a fresh one that is not ready; the current
\* timer only becomes ready by its own worker; and the buffer holding the
\* entry of a batch has been drawn before the next batch is performed.
C20_OneBatchPerExpiry ==
    [][/\ BatchStep
          => /\ Sleep_done(timers, sleep)
             /\ sleep' \notin 1..Len(timers)
             /\ ~Sleep_done(timers', sleep')
             /\ drawn = batches
       /\ BecomesReady
          => /\ timers[sleep].worker = "sleeping"
             /\ timers'[sleep].worker = "finished"
             /\ \A t \in 1..Len(timers) : t # sleep => timers'[t] = timers[t]]_vars

====
